---- MODULE Spec2Model ----
(***************************************************************************)
(* Model of the ESP32 CYD weather station sketch                           *)
(* (Esp32_CYD_TFT_eSPI_OpenWeather_LittleFS_v02.ino).                       *)
(*                                                                         *)
(* Arduino Strings that the sketch builds or scans are sequences of        *)
(* one-character strings, so concatenation and indexOf are computed.       *)
(* JSON values are sequences too: <<>> is an absent member (ArduinoJson's  *)
(* null variant), <<v>> a number or string v, and an array is the sequence *)
(* of its elements.                                                        *)
(***************************************************************************)
EXTENDS Integers, Sequences, FiniteSets, TLC

VARIABLES
  pc,                 \* position of the sketch inside loop()/updateData()
  booted,             \* boolean booted (line 117)
  millis,             \* millis(), in ticks
  lastDownloadUpdate, \* long lastDownloadUpdate (line 121)
  lastMinute,         \* lastMinute of NTP_Time.h, compared at line 250
  lastPressure,       \* float lastPressure (line 122)
  lastValidLocation,  \* static String lastValidLocation (line 846)
  forecast,           \* the OW_forecast that forecast points to, or NoForecast
  httpCode,           \* int httpCode of updateData (line 290)
  parsed,             \* bool parsed of updateData (line 291)
  doc,                \* DynamicJsonDocument doc of updateData (line 294)
  tft,                \* what the display shows, region by region
  cycle,              \* what this iteration of loop() has done to the display,
                      \* whether the lookup of this updateData call failed
  atEntry,            \* tft, lastPressure, location and booted at updateData's entry
  history,            \* pressure of the last complete refresh, whether the
                      \* last refresh failed, ticks since the last attempt
  env,                \* the surroundings of this run: "station" or "timer"
  fnIn,               \* argument of the function under study
  fnOut               \* its result

vars == <<pc, booted, millis, lastDownloadUpdate, lastMinute,
          lastPressure, lastValidLocation, forecast, httpCode, parsed, doc,
          tft, cycle, atEntry, history, env, fnIn, fnOut>>

\* ------------------------------------------------------------------ bounds

MaxLen == 7          \* longest text given to splitIndex
MaxCode == 1010      \* largest weather code given to getMeteoconIcon
MaxTime == 2         \* now, sunrise and sunset range over 0..MaxTime
MaxBearing == 720    \* stored bearings range over -MaxBearing..MaxBearing
MaxHour == 72        \* sunrise timestamps range over the hours 0..MaxHour
MaxTzHours == 12     \* timezone offsets range over -MaxTzHours..MaxTzHours hours

\* --------------------------------------------------------- Arduino Strings

Null == <<"n", "u", "l", "l">>

\* String::indexOf(ch, fromIndex): 0-based index of the first ch at or after
\* fromIndex, -1 when there is none or fromIndex is past the end.
IndexOf(text, ch, from) ==
  LET hits == {i \in from..(Len(text) - 1) : text[i + 1] = ch}
  IN  IF hits = {} THEN -1 ELSE CHOOSE i \in hits : \A j \in hits : i <= j

\* C integer division truncates toward zero.
TruncDiv(a, b) == IF a >= 0 THEN a \div b ELSE -((-a) \div b)

\* ------------------------------------------------------------- splitIndex

RECURSIVE SplitLoop(_, _)
SplitLoop(text, index) ==
  IF IndexOf(text, " ", index) >= 0 /\ index <= Len(text) \div 2
  THEN SplitLoop(text, (IndexOf(text, " ", index) + 1) % 65536)
  ELSE index

splitIndex_keepsOnePast(text) == SplitLoop(text, 0)

splitIndex(text) ==
  LET index == SplitLoop(text, 0)
  IN  IF index # 0 THEN index - 1 ELSE index

\* -------------------------------------------------------- getMeteoconIcon

IsNightTime_inclusive(now, sunrise, sunset) == now <= sunrise \/ now >= sunset

\* line 613
IsNightTime(now, sunrise, sunset) == now < sunrise \/ now > sunset

\* the chain of returns without its last line
IconOf_noFallback(id) ==
  IF id = 0 THEN "clear-day"
  ELSE IF id = 1000 THEN "clear-night"
  ELSE IF id >= 1 /\ id <= 3 THEN "partly-cloudy-day"
  ELSE IF id >= 1001 /\ id <= 1003 THEN "partly-cloudy-night"
  ELSE IF id = 45 \/ id = 48 THEN "fog"
  ELSE IF id >= 51 /\ id <= 55 THEN "drizzle"
  ELSE IF id >= 61 /\ id <= 67 THEN "rain"
  ELSE IF id >= 80 /\ id <= 82 THEN "rain"
  ELSE IF id >= 71 /\ id <= 77 THEN "snow"
  ELSE IF id = 85 \/ id = 86 THEN "snow"
  ELSE IF id >= 95 /\ id <= 99 THEN "thunderstorm"
  ELSE ""

\* the chain of returns, lines 619-643
IconOf(id) ==
  IF id = 0 THEN "clear-day"
  ELSE IF id = 1000 THEN "clear-night"
  ELSE IF id >= 1 /\ id <= 3 THEN "partly-cloudy-day"
  ELSE IF id >= 1001 /\ id <= 1003 THEN "partly-cloudy-night"
  ELSE IF id = 45 \/ id = 48 THEN "fog"
  ELSE IF id >= 51 /\ id <= 55 THEN "drizzle"
  ELSE IF id >= 61 /\ id <= 67 THEN "rain"
  ELSE IF id >= 80 /\ id <= 82 THEN "rain"
  ELSE IF id >= 71 /\ id <= 77 THEN "snow"
  ELSE IF id = 85 \/ id = 86 THEN "snow"
  ELSE IF id >= 95 /\ id <= 99 THEN "thunderstorm"
  ELSE "unknown"

\* id is a uint16_t
getMeteoconIcon(id, today, now, sunrise, sunset) ==
  IF today /\ id <= 3 /\ IsNightTime(now, sunrise, sunset)
  THEN IconOf((id + 1000) % 65536)
  ELSE IconOf(id)

\* ------------------------------------------------- wind direction sector

\* (int)(wind_deg + 22.5), the bearing in whole degrees
WindCast(deg) == TruncDiv(deg * 10 + 225, 10)

WindRaw(deg) == TruncDiv(WindCast(deg), 45)

WindClamp_offByOne(windAngle) ==
  IF windAngle > 8 \/ windAngle < 0 THEN 0 ELSE windAngle

WindClamp(windAngle) ==
  IF windAngle > 7 \/ windAngle < 0 THEN 0 ELSE windAngle

windDirs == <<"N", "NE", "E", "SE", "S", "SW", "W", "NW">>

\* ----------------------------------------------------------- time helpers

\* TimeLib weekday(t): 1 = Sunday; 1 January 1970 was a Thursday
weekday(t) == (((t \div 86400) + 4) % 7) + 1

dayShortNames == <<"SUN", "MON", "TUE", "WED", "THU", "FRI", "SAT">>

\* dayShortStr(n) followed by toUpperCase()
dayShortStr(n) == dayShortNames[n]

\* Timezone::toLocal for a rule whose offset is tzHours hours
toLocal(t, tzHours) == t + tzHours * 3600

\* the weekday label of drawForecastDetail, line 513
DayName(dt, tzHours) == dayShortStr(weekday(dt))

\* ------------------------------------------------------------ ArduinoJson

Absent == <<>>

\* element i of a JSON array, absent when the array is absent or too short
Elem(a, i) == IF i + 1 \in DOMAIN a THEN a[i + 1] ELSE Absent

\* conversion to a number: an absent member converts to 0
AsNum(j) == IF j = Absent THEN 0 ELSE j[1]

\* as<int>() of a bearing the payload gives in tenths of a degree
AsInt(j) == IF j = Absent THEN 0 ELSE TruncDiv(j[1], 10)

\* as<String>(): an absent member serialises as "null"
AsString(j) == IF j = Absent THEN Null ELSE j[1]

\* deserializeJson: a body that does not parse leaves the document empty
deserializeJson(resp, empty) == IF resp.parses THEN resp.body ELSE empty

HttpOk_anyPositive(code) == code > 0

HttpOk(code) == code = 200

HttpCodes == {200, 404, -1}

\* ------------------------------------------------------ getLocationName

DefaultLocation ==
  <<"E", "n", "v", "i", "g", "a", "d", "o", ",", " ",
    "C", "o", "l", "o", "m", "b", "i", "a">>

GeoFields == {"city", "locality", "countryName"}

EmptyGeoDoc == [f \in GeoFields |-> Absent]

CityNames == {<<>>, <<"P">>}
LocalityNames == {<<>>, <<"L">>}
CountryNames == {<<>>, <<"C">>}

JsonStrings(names) == {Absent} \cup {<<n>> : n \in names}

GeoDocs ==
  {[f \in GeoFields |->
      IF f = "city" THEN c ELSE IF f = "locality" THEN l ELSE k] :
     c \in JsonStrings(CityNames), l \in JsonStrings(LocalityNames),
     k \in JsonStrings(CountryNames)}

\* the lookups of the refresh cycle: a resolved name, a failed request, a
\* request that timed out and a response that names no place
GeoSamples ==
  {[code |-> 200, parses |-> TRUE,
    body |-> [f \in GeoFields |->
                IF f = "city" THEN <<<<"P">>>>
                ELSE IF f = "locality" THEN Absent ELSE <<<<"C">>>>]],
   [code |-> 404, parses |-> FALSE, body |-> EmptyGeoDoc],
   [code |-> -1, parses |-> FALSE, body |-> EmptyGeoDoc],
   [code |-> 200, parses |-> TRUE,
    body |-> [f \in GeoFields |->
                IF f = "countryName" THEN <<<<"C">>>> ELSE Absent]]}

GeoResponses ==
  {[code |-> 200, parses |-> TRUE, body |-> d] : d \in GeoDocs}
  \cup {[code |-> c, parses |-> FALSE, body |-> EmptyGeoDoc] : c \in HttpCodes}

\* line 862, the test that guards the overwrite
LocationUsable_emptyCityAllowed(city, country) ==
  city # Null /\ country # Null

LocationUsable(city, country) ==
  city # Null /\ country # Null /\ city # <<>>

\* lines 845-868 with a failed lookup returning an empty name
getLocationName_emptyOnFailure(cache, resp) ==
  IF resp.code = 200
  THEN LET d == IF resp.parses THEN resp.body ELSE EmptyGeoDoc
           city0 == AsString(d["city"])
           city == IF city0 = Null \/ city0 = <<>>
                   THEN AsString(d["locality"]) ELSE city0
           country == AsString(d["countryName"])
       IN  IF city # Null /\ country # Null /\ city # <<>>
           THEN city \o <<",", " ">> \o country
           ELSE <<>>
  ELSE <<>>

\* lines 845-868: the value returned and the new lastValidLocation
getLocationName(cache, resp) ==
  IF HttpOk(resp.code)
  THEN LET d == deserializeJson(resp, EmptyGeoDoc)
           city0 == AsString(d["city"])
           city == IF city0 = Null \/ city0 = <<>>
                   THEN AsString(d["locality"]) ELSE city0
           country == AsString(d["countryName"])
       IN  IF LocationUsable(city, country)
           THEN city \o <<",", " ">> \o country
           ELSE cache
  ELSE cache

\* ------------------------------------------------------- weather payload

Pressures == {1010, 1015}

CurrentFields ==
  {"temperature_2m", "relative_humidity_2m", "cloud_cover", "surface_pressure",
   "wind_speed_10m", "wind_direction_10m", "weather_code"}

DailyFields ==
  {"sunrise", "sunset", "temperature_2m_max", "temperature_2m_min",
   "daily_weather_code"}

Fields == CurrentFields \cup DailyFields

EmptyDoc == [f \in Fields |-> Absent]

\* a complete payload whose current surface pressure is p; times in seconds,
\* the bearing in tenths of a degree
FullDoc(p) ==
  [f \in Fields |->
     CASE f = "temperature_2m"       -> <<21>>
       [] f = "relative_humidity_2m" -> <<60>>
       [] f = "cloud_cover"          -> <<40>>
       [] f = "surface_pressure"     -> <<p>>
       [] f = "wind_speed_10m"       -> <<3>>
       [] f = "wind_direction_10m"   -> <<900>>
       [] f = "weather_code"         -> <<61>>
       [] f = "sunrise" ->
            << <<21600>>, <<108000>>, <<194400>>, <<280800>>, <<367200>> >>
       [] f = "sunset" ->
            << <<64800>>, <<151200>>, <<237600>>, <<324000>>, <<410400>> >>
       [] f = "temperature_2m_max"   -> << <<25>>, <<26>>, <<27>>, <<28>>, <<29>> >>
       [] f = "temperature_2m_min"   -> << <<15>>, <<16>>, <<17>>, <<18>>, <<19>> >>
       [] f = "daily_weather_code"   -> << <<1>>, <<2>>, <<3>>, <<45>>, <<95>> >>]

BaseDoc == FullDoc(1010)

\* the members left out of the incomplete payloads of the refresh cycle
MissingSamples == {"surface_pressure", "sunrise"}

WeatherDocs ==
  {FullDoc(p) : p \in Pressures}
  \cup {[BaseDoc EXCEPT ![f] = Absent] : f \in MissingSamples}

WeatherResponses ==
  {[code |-> 200, parses |-> TRUE, body |-> d] : d \in WeatherDocs}
  \cup {[code |-> c, parses |-> FALSE, body |-> EmptyDoc] : c \in HttpCodes}

\* lines 285-286: the members the request URL names, current= and daily=
RequestedCurrent ==
  {"temperature_2m", "relative_humidity_2m", "surface_pressure",
   "weather_code", "wind_speed_10m", "wind_direction_10m"}

RequestedDaily ==
  {"daily_weather_code", "temperature_2m_max", "temperature_2m_min",
   "sunrise", "sunset"}

\* every required member is present
Complete(d) == \A f \in Fields : d[f] # Absent

NowValues == {0, 21600, 43200, 64800, 82800}

\* ----------------------------------------------------------- OW_forecast

NumSlots == 40

Slots == 0..(NumSlots - 1)

DaySlots == {8, 16, 24, 32}

NoForecast == <<>>

\* what new OW_forecast holds. The sketch uses only element 0 of temp,
\* humidity, clouds_all, pressure, wind_speed and wind_deg, so each of these
\* is its element 0; id, temp_max, temp_min and dt are the 40-slot arrays.
\* pressure[0] is read at line 302 before the sketch writes it, so its value
\* p0 is whatever the allocation holds.
FreshForecast(city, p0) ==
  [city_name |-> city,
   temp |-> 0, humidity |-> 0, clouds_all |-> 0, pressure |-> p0,
   wind_speed |-> 0, wind_deg |-> 0,
   id |-> [s \in Slots |-> 0], sunrise |-> 0, sunset |-> 0,
   temp_max |-> [s \in Slots |-> 0], temp_min |-> [s \in Slots |-> 0],
   dt |-> [s \in Slots |-> 0]]

FreshPressures == {0} \cup Pressures

\* line 302
SavedPressure(old, last) == IF old > 0 THEN old ELSE last

\* lines 298-316
Populate(fc, d) ==
  [fc EXCEPT
     !.temp = AsNum(d["temperature_2m"]),
     !.humidity = AsNum(d["relative_humidity_2m"]),
     !.clouds_all = AsNum(d["cloud_cover"]),
     !.pressure = AsNum(d["surface_pressure"]),
     !.wind_speed = AsNum(d["wind_speed_10m"]),
     !.wind_deg = AsInt(d["wind_direction_10m"]),
     !.id = [s \in Slots |->
               IF s = 0 THEN AsNum(d["weather_code"])
               ELSE IF s \in DaySlots
                    THEN AsNum(Elem(d["daily_weather_code"], s \div 8))
                    ELSE fc.id[s]],
     !.sunrise = AsNum(Elem(d["sunrise"], 0)),
     !.sunset = AsNum(Elem(d["sunset"], 0)),
     !.temp_max = [s \in Slots |->
               IF s \in DaySlots
               THEN AsNum(Elem(d["temperature_2m_max"], s \div 8))
               ELSE fc.temp_max[s]],
     !.temp_min = [s \in Slots |->
               IF s \in DaySlots
               THEN AsNum(Elem(d["temperature_2m_min"], s \div 8))
               ELSE fc.temp_min[s]],
     !.dt = [s \in Slots |->
               IF s \in DaySlots THEN AsNum(Elem(d["sunrise"], s \div 8))
               ELSE fc.dt[s]]]

\* ---------------------------------------------------------------- drawing

\* lines 422-427 with < for <= at the rain threshold
Legend_rainBelow67(code) ==
  IF code = 0 THEN "Clear"
  ELSE IF code <= 3 THEN "Cloudy"
  ELSE IF code < 67 THEN "Rain"
  ELSE IF code <= 99 THEN "Storm"
  ELSE "Clouds"

\* lines 422-427
Legend(code) ==
  IF code = 0 THEN "Clear"
  ELSE IF code <= 3 THEN "Cloudy"
  ELSE IF code <= 67 THEN "Rain"
  ELSE IF code <= 99 THEN "Storm"
  ELSE "Clouds"

\* lines 452-460 without the test lastPressure > 0
TrendArrow_noZeroCheck(last, pressure) ==
  IF last # pressure
  THEN IF pressure > last THEN "up" ELSE "down"
  ELSE "none"

\* lines 452-460
TrendArrow(last, pressure) ==
  IF last > 0 /\ last # pressure
  THEN IF pressure > last THEN "up" ELSE "down"
  ELSE "none"

\* lines 416-481
drawCurrentWeather(fc, last, now) ==
  [icon |-> getMeteoconIcon(fc.id[0], TRUE, now, fc.sunrise, fc.sunset),
   legend |-> Legend(fc.id[0]),
   wind_speed |-> fc.wind_speed,
   pressure |-> fc.pressure,
   arrow |-> TrendArrow(last, fc.pressure),
   windDir |-> windDirs[WindClamp(WindRaw(fc.wind_deg)) + 1]]

\* lines 502-531; the timezone rule plays no part in the label
drawForecastDetail(fc, dayIndex, now) ==
  IF dayIndex >= NumSlots THEN <<>>
  ELSE << [day |-> DayName(fc.dt[dayIndex], 0),
           high |-> fc.temp_max[dayIndex],
           low |-> fc.temp_min[dayIndex],
           icon |-> getMeteoconIcon(fc.id[dayIndex], FALSE, now,
                                    fc.sunrise, fc.sunset)] >>

\* lines 487-496 with the panels starting at today's slot
drawForecast_fromToday(fc, now) ==
  <<drawForecastDetail(fc, 0, now), drawForecastDetail(fc, 8, now),
    drawForecastDetail(fc, 16, now), drawForecastDetail(fc, 24, now)>>

\* lines 487-496
drawForecast(fc, now) ==
  <<drawForecastDetail(fc, 8, now), drawForecastDetail(fc, 16, now),
    drawForecastDetail(fc, 24, now), drawForecastDetail(fc, 32, now)>>

\* lines 536-604: the arguments of strTime, cloud cover and humidity
drawAstronomy(fc) ==
  [sunrise |-> fc.sunrise, sunset |-> fc.sunset,
   clouds |-> fc.clouds_all, humidity |-> fc.humidity]

Regions == {"header", "date", "current", "forecast", "astronomy", "bigTemp"}

\* tft.fillScreen(TFT_BLACK)
BlankScreen ==
  [progress |-> <<>>, header |-> <<>>, date |-> <<>>, current |-> <<>>,
   forecast |-> <<>>, astronomy |-> <<>>, bigTemp |-> <<>>, clock |-> <<>>]

\* lines 320-359
DrawDashboard(fc, last, now) ==
  [BlankScreen EXCEPT
     !.header = <<fc.city_name \o <<" ", "|", " ">> >>,
     !.date = <<"date">>,
     !.current = <<drawCurrentWeather(fc, last, now)>>,
     !.forecast = drawForecast(fc, now),
     !.astronomy = <<drawAstronomy(fc)>>,
     !.bigTemp = <<fc.temp>>]

\* -------------------------------------------------------------- the loop

MillisWrap == 2      \* millis() wraps at MillisWrap ticks
Interval == 0        \* 1000UL * UPDATE_INTERVAL_SECS, in ticks
MaxMinute == 1       \* minute() ranges over 0..MaxMinute

\* the same two scales for the runs that study the refresh timer
TimerWrap == 8
TimerInterval == 2

\* the services of a timer run: every lookup fails, the weather service
\* answers with a complete payload or with an error
TimerLookups == {[code |-> 404, parses |-> FALSE, body |-> EmptyGeoDoc]}

TimerResponses ==
  {[code |-> 200, parses |-> TRUE, body |-> BaseDoc],
   [code |-> 404, parses |-> FALSE, body |-> EmptyDoc]}

\* what the surroundings of a run provide
Lookups == IF env = "timer" THEN TimerLookups ELSE GeoSamples

Payloads == IF env = "timer" THEN TimerResponses ELSE WeatherResponses

Fresh == IF env = "timer" THEN {0} ELSE FreshPressures

Wrap == IF env = "timer" THEN TimerWrap ELSE MillisWrap

Period == IF env = "timer" THEN TimerInterval ELSE Interval

Minutes == 0..MaxMinute

MaxStreak == 2       \* failed lookups in a row are counted up to MaxStreak

Bump(n) == IF n < MaxStreak THEN n + 1 ELSE n

NoCycle == [cleared |-> FALSE, drawn |-> {}, lookupFailed |-> FALSE]

NoEntry == <<>>

\* what kind of lookup result a reverse-geocode response is
GeoKind(resp) ==
  IF resp.code # 200 THEN (IF resp.code < 0 THEN "timeout" ELSE "status")
  ELSE IF ~resp.parses THEN "unparsable"
  ELSE IF resp.body["city"] \in {Absent, <<<<>>>>}
          /\ resp.body["locality"] \in {Absent, <<<<>>>>} THEN "noname"
  ELSE IF resp.body["countryName"] = Absent THEN "nocountry"
  ELSE IF resp.body["countryName"] = <<<<>>>> THEN "emptycountry"
  ELSE "ok"

GeoFailures == {"timeout", "status", "unparsable", "noname"}

Boot ==
  /\ pc = "loop"
  /\ booted = TRUE
  /\ millis = 0
  /\ lastDownloadUpdate = 0
  /\ lastMinute = 0
  /\ lastPressure = 0
  /\ lastValidLocation = DefaultLocation
  /\ forecast = NoForecast
  /\ httpCode = 0
  /\ parsed = FALSE
  /\ doc = EmptyDoc
  /\ tft = BlankScreen
  /\ cycle = NoCycle
  /\ atEntry = NoEntry
  /\ history = [prevPressure |-> 0, lastFailed |-> FALSE, elapsed |-> 0]

MainInit == Boot /\ env = "station"

Init == MainInit /\ fnIn = <<>> /\ fnOut = <<>>

\* line 246: an unsigned long stored in a long
ToLong(u) == IF 2 * u >= Wrap THEN u - Wrap ELSE u

\* line 244 with the comparison made on the operands as they are written,
\* the stored long not converted back to unsigned
Due_signedCompare == millis - lastDownloadUpdate > Period

\* line 244 with >= for >
Due_atInterval == (millis - lastDownloadUpdate) % Wrap >= Period

\* line 244: the stored long converts back to unsigned long and the
\* subtraction is unsigned
Due == (millis - lastDownloadUpdate) % Wrap > Period

Loop_Check ==
  /\ pc = "loop"
  /\ IF booted \/ Due
     THEN /\ pc' = "ud_location"
          /\ atEntry' = <<[tft |-> tft, lastPressure |-> lastPressure,
                           location |-> lastValidLocation, booted |-> booted]>>
     ELSE /\ pc' = "clock"
          /\ UNCHANGED atEntry
  /\ cycle' = NoCycle
  /\ UNCHANGED <<booted, millis, lastDownloadUpdate, lastMinute,
                 lastPressure, lastValidLocation, forecast, httpCode, parsed,
                 doc, tft, history, env, fnIn, fnOut>>

\* lines 271-280
UD_Location ==
  /\ pc = "ud_location"
  /\ \E resp \in Lookups, p0 \in Fresh :
       LET loc == getLocationName(lastValidLocation, resp)
       IN  /\ lastValidLocation' = loc
           /\ forecast' = FreshForecast(loc, p0)
           /\ cycle' = [cycle EXCEPT
                          !.lookupFailed = GeoKind(resp) \in GeoFailures]
  /\ tft' = IF booted
            THEN [tft EXCEPT !.progress = <<"Updating conditions...">>]
            ELSE tft
  /\ pc' = "ud_fetch"
  /\ UNCHANGED <<booted, millis, lastDownloadUpdate, lastMinute,
                 lastPressure, httpCode, parsed, doc, atEntry,
                 history, env, fnIn, fnOut>>

\* lines 282-318
UD_Fetch ==
  /\ pc = "ud_fetch"
  /\ \E resp \in Payloads :
       /\ httpCode' = resp.code
       /\ IF HttpOk(resp.code)
          THEN /\ doc' = deserializeJson(resp, EmptyDoc)
               /\ parsed' = TRUE
               /\ lastPressure' = SavedPressure(forecast.pressure, lastPressure)
               /\ forecast' = Populate(forecast, doc')
          ELSE /\ parsed' = FALSE
               /\ UNCHANGED <<doc, lastPressure, forecast>>
  /\ pc' = "ud_draw"
  /\ UNCHANGED <<booted, millis, lastDownloadUpdate, lastMinute,
                 lastValidLocation, tft, cycle, atEntry, history,
                 env, fnIn, fnOut>>

\* lines 320-362
UD_Draw ==
  /\ pc = "ud_draw"
  /\ IF parsed
     THEN /\ \E now \in NowValues :
               tft' = DrawDashboard(forecast, lastPressure, now)
          /\ cycle' = [cycle EXCEPT !.cleared = TRUE, !.drawn = Regions]
     ELSE UNCHANGED <<tft, cycle>>
  /\ pc' = "ud_end"
  /\ UNCHANGED <<booted, millis, lastDownloadUpdate, lastMinute,
                 lastPressure, lastValidLocation, forecast, httpCode, parsed,
                 doc, atEntry, history, env, fnIn, fnOut>>

\* lines 364-366, then line 246 of loop()
UD_End ==
  /\ pc = "ud_end"
  /\ booted' = FALSE
  /\ forecast' = NoForecast
  /\ lastDownloadUpdate' = ToLong(millis)
  /\ history' = [history EXCEPT
       !.prevPressure = IF parsed /\ Complete(doc)
                        THEN forecast.pressure ELSE @,
       !.lastFailed = ~parsed,
       !.elapsed = 0]
  /\ cycle' = [cycle EXCEPT !.lookupFailed = FALSE]
  /\ httpCode' = 0
  /\ parsed' = FALSE
  /\ doc' = EmptyDoc
  /\ atEntry' = NoEntry
  /\ pc' = "clock"
  /\ UNCHANGED <<millis, lastMinute, lastPressure,
                 lastValidLocation, tft, env, fnIn, fnOut>>

\* lines 250-263
Loop_Clock ==
  /\ pc = "clock"
  /\ \E minute \in Minutes :
       IF booted \/ minute # lastMinute
       THEN /\ tft' = [tft EXCEPT !.clock = <<"time">>]
            /\ lastMinute' = minute
       ELSE UNCHANGED <<tft, lastMinute>>
  /\ booted' = FALSE
  /\ pc' = "loop"
  /\ UNCHANGED <<millis, lastDownloadUpdate, lastPressure,
                 lastValidLocation, forecast, httpCode, parsed, doc,
                 cycle, atEntry, history, env, fnIn, fnOut>>

\* time passes between two iterations of loop(); loop() runs many times per
\* tick, so no further tick passes once more than the interval has gone by
\* since the last attempt
Tick ==
  /\ pc = "loop"
  /\ history.elapsed <= Period
  /\ millis' = (millis + 1) % Wrap
  /\ history' = [history EXCEPT !.elapsed = @ + 1]
  /\ UNCHANGED <<pc, booted, lastDownloadUpdate, lastMinute, lastPressure,
                 lastValidLocation, forecast, httpCode, parsed, doc,
                 tft, cycle, atEntry, env, fnIn, fnOut>>

Next ==
  \/ Loop_Check
  \/ UD_Location
  \/ UD_Fetch
  \/ UD_Draw
  \/ UD_End
  \/ Loop_Clock
  \/ Tick

Spec == Init /\ [][Next]_vars

\* ===================================================================
\* Refresh cycle: claims C1, C2, C3 (specification Spec)
\* ===================================================================

\* C1 (as the specification states it): a response with HTTP 200 whose payload
\* lacks a required member, or does not parse, fails wholesale: updateData
\* neither clears the screen nor draws a region, and the display is the one
\* it found.
C1_IncompleteNotDrawn ==
  (pc = "ud_end" /\ httpCode = 200 /\ ~Complete(doc)) =>
     /\ ~cycle.cleared
     /\ cycle.drawn = {}
     /\ tft = atEntry[1].tft

\* C2 (as the specification states it): when a complete refresh follows a
\* complete refresh whose pressure p1 was above 0, lastPressure holds p1 when
\* the arrow is decided, and the arrow is up for p2 > p1, down for p2 < p1
\* and absent for p2 = p1.
C2_TrendAgainstPrevious ==
  (pc = "ud_end" /\ parsed /\ Complete(doc) /\ history.prevPressure > 0) =>
     /\ lastPressure = history.prevPressure
     /\ tft.current[1].arrow =
          IF forecast.pressure > history.prevPressure THEN "up"
          ELSE IF forecast.pressure < history.prevPressure THEN "down"
          ELSE "none"

\* C3: a refresh after boot whose weather fetch returns a status other than
\* 200 clears nothing, draws no region, and leaves the display and
\* lastPressure as updateData found them.
C3_FailedFetchKeepsDisplay ==
  (pc = "ud_end" /\ httpCode # 200 /\ ~atEntry[1].booted) =>
     /\ ~cycle.cleared
     /\ cycle.drawn = {}
     /\ tft = atEntry[1].tft
     /\ lastPressure = atEntry[1].lastPressure

\* a second failed refresh in a row, with a dashboard on the display
C3_Witness ==
  /\ pc = "ud_end"
  /\ httpCode # 200
  /\ ~atEntry[1].booted
  /\ history.lastFailed
  /\ tft.current # <<>>

\* the fetch of this updateData call has been made, whatever the lookup gave;
\* after a failed lookup the cache is the one updateData found, and a
\* dashboard drawn is the one a lookup resolving to that cached name gives
C12_AfterLookup ==
  /\ pc \in {"ud_draw", "ud_end"} => httpCode \in HttpCodes
  /\ (pc = "ud_end" /\ cycle.lookupFailed) =>
       /\ lastValidLocation = atEntry[1].location
       /\ parsed = HttpOk(httpCode)
       /\ parsed =>
            /\ cycle.drawn = Regions
            /\ tft.header = <<atEntry[1].location \o <<" ", "|", " ">> >>
            /\ \E now \in NowValues :
                 tft = DrawDashboard(
                         [forecast EXCEPT !.city_name = atEntry[1].location],
                         lastPressure, now)

\* the step that follows the lookup is the weather fetch
C12_LookupThenFetch == pc = "ud_location" => pc' = "ud_fetch"

\* C12: the weather fetch is issued after getLocationName returns, whatever
\* the lookup's outcome; a failed lookup never prevents the fetch and the
\* drawing, and its only effect is that the header shows the location that
\* was cached before.
C12_FetchWhateverLookup ==
  []C12_AfterLookup /\ [][C12_LookupThenFetch]_vars

\* C14: the trend arrow is drawn only if lastPressure is above 0 and differs
\* from the current pressure; it points up exactly when the current pressure
\* is above lastPressure and down exactly when it is below, and no arrow is
\* drawn when the two are equal or lastPressure is 0.
C14_TrendArrowRule ==
  (pc = "ud_end" /\ parsed) =>
     LET arrow == tft.current[1].arrow
         pressure == tft.current[1].pressure
     IN  /\ pressure = forecast.pressure
         /\ arrow \in {"up", "down", "none"}
         /\ arrow # "none" => (lastPressure > 0 /\ lastPressure # pressure)
         /\ arrow = "up" <=> (lastPressure > 0 /\ pressure > lastPressure)
         /\ arrow = "down" <=> (lastPressure > 0 /\ pressure < lastPressure)
         /\ (lastPressure = 0 \/ lastPressure = pressure) => arrow = "none"

\* a rising pressure drawn with its arrow
C14_Witness ==
  /\ pc = "ud_end"
  /\ parsed
  /\ lastPressure = 1010
  /\ tft.current[1].pressure = 1015
  /\ tft.current[1].arrow = "up"

\* what panel k shows when it shows day k of the payload's daily arrays
DailyPanel(d, k) ==
  [day |-> dayShortStr(weekday(AsNum(Elem(d["sunrise"], k)))),
   high |-> AsNum(Elem(d["temperature_2m_max"], k)),
   low |-> AsNum(Elem(d["temperature_2m_min"], k)),
   icon |-> IconOf(AsNum(Elem(d["daily_weather_code"], k)))]

\* C16: the four forecast panels show the payload's daily days 1 to 4: the
\* slot each panel reads (8, 16, 24, 32) was written in the same refresh from
\* daily index slot / 8, for the day stamp, both temperatures and the weather
\* code; no panel shows slot 0 (today) or a slot the refresh did not write.
C16_PanelsShowDaysOneToFour ==
  (pc = "ud_end" /\ parsed) =>
     /\ Len(tft.forecast) = 4
     /\ \A k \in 1..4 :
          /\ tft.forecast[k] = <<DailyPanel(doc, k)>>
          /\ 8 * k \in DaySlots
          /\ forecast.dt[8 * k] = AsNum(Elem(doc["sunrise"], k))
          /\ forecast.temp_max[8 * k] =
               AsNum(Elem(doc["temperature_2m_max"], k))
          /\ forecast.temp_min[8 * k] =
               AsNum(Elem(doc["temperature_2m_min"], k))
          /\ forecast.id[8 * k] = AsNum(Elem(doc["daily_weather_code"], k))

\* a complete payload on the display: tomorrow in the first panel, day 4 in
\* the last
C16_Witness ==
  /\ pc = "ud_end"
  /\ parsed
  /\ Complete(doc)
  /\ tft.forecast[1][1].high = 26
  /\ tft.forecast[4][1].high = 29
  /\ tft.forecast[4][1].icon = IconOf(95)

\* C17: whenever updateData has cleared the screen, the boot refresh
\* included, drawTime runs later in the same iteration of loop(), so the
\* clock digits are on the display at the end of every iteration that
\* redrew, whatever minute() and lastMinute are.
C17_ClockAfterRedraw ==
  (pc = "loop" /\ cycle.cleared) => tft.clock # <<>>

\* C18: every payload member that updateData reads into the snapshot is
\* among the members the request URL of the same cycle names.
C18_ReadFieldsRequested ==
  (pc = "ud_draw" /\ parsed) =>
     /\ \A f \in CurrentFields : f \in RequestedCurrent
     /\ \A f \in DailyFields : f \in RequestedDaily

\* a dashboard drawn after a failed lookup, under a name resolved earlier
C12_Witness ==
  /\ pc = "ud_end"
  /\ cycle.lookupFailed
  /\ parsed
  /\ atEntry[1].location # DefaultLocation
  /\ tft.header = <<atEntry[1].location \o <<" ", "|", " ">> >>

\* ===================================================================
\* getLocationName called again and again: claims C4, C5
\* (specification SpecGeo)
\* ===================================================================

\* the "City, Country" string a response resolves to
Resolved(resp) ==
  LET c == resp.body["city"]
      l == resp.body["locality"]
  IN  (IF c \in {Absent, <<<<>>>>} THEN l[1] ELSE c[1])
        \o <<",", " ">> \o resp.body["countryName"][1]

GeoInit ==
  /\ MainInit
  /\ fnIn = [code |-> 0, parses |-> FALSE, body |-> EmptyGeoDoc]
  /\ fnOut = <<>>

\* one call of getLocationName, lines 845-868
Geo_Call ==
  /\ \E resp \in GeoResponses :
       LET ret == getLocationName(lastValidLocation, resp)
           kind == GeoKind(resp)
           old == IF fnOut = <<>>
                  THEN [fails |-> 0, lastGood |-> DefaultLocation]
                  ELSE fnOut[1]
       IN  /\ lastValidLocation' = ret
           /\ fnIn' = resp
           /\ fnOut' = <<[ret |-> ret,
                          before |-> lastValidLocation,
                          kind |-> kind,
                          fails |-> IF kind \in GeoFailures
                                    THEN Bump(old.fails) ELSE 0,
                          lastGood |-> IF kind \in {"ok", "emptycountry"}
                                       THEN Resolved(resp)
                                       ELSE old.lastGood]>>
  /\ UNCHANGED <<pc, booted, millis, lastDownloadUpdate, lastMinute,
                 lastPressure, forecast, httpCode, parsed, doc, tft, cycle,
                 atEntry, history, env>>

GeoNext == Geo_Call

SpecGeo == GeoInit /\ [][GeoNext]_vars

\* C4: when the lookup fails (status other than 200, timeout, unparsable
\* body, or city and locality both missing or empty) getLocationName returns
\* the cache as it was and leaves it unchanged, and the value returned is the
\* last string a lookup resolved, or the default when none did.
C4_FailedLookupKeepsCache ==
  (fnOut # <<>> /\ fnOut[1].kind \in GeoFailures) =>
     /\ fnOut[1].ret = fnOut[1].before
     /\ lastValidLocation = fnOut[1].before
     /\ fnOut[1].ret = fnOut[1].lastGood

\* MaxStreak failed lookups in a row after a resolved name
C4_Witness ==
  /\ fnOut # <<>>
  /\ fnOut[1].kind \in GeoFailures
  /\ fnOut[1].fails >= MaxStreak
  /\ fnOut[1].ret # DefaultLocation

\* "City, Country" with a non-empty city part and a non-empty country part
WellFormedLocation(loc) ==
  \E i \in 2..(Len(loc) - 2) : loc[i] = "," /\ loc[i + 1] = " "

\* C5 (as the specification states it): the cache is overwritten only by a
\* lookup with HTTP 200, a non-empty city or locality and a non-empty country
\* name, so the cache is the default or a "City, Country" string whose two
\* parts are non-empty.
C5_CacheWellFormed ==
  /\ (fnOut # <<>> /\ lastValidLocation # fnOut[1].before) =>
        fnOut[1].kind = "ok"
  /\ lastValidLocation = DefaultLocation \/ WellFormedLocation(lastValidLocation)

\* ===================================================================
\* splitIndex: claim C6 (specification SpecSplit)
\* ===================================================================

ExampleText ==
  <<"P", "a", "r", "t", "l", "y", " ", "c", "l", "o",
    "u", "d", "y", " ", "w", "i", "t", "h", " ", "a",
    " ", "c", "h", "a", "n", "c", "e", " ", "o", "f",
    " ", "r", "a", "i", "n">>

RECURSIVE TextsOfLen(_)
TextsOfLen(n) ==
  IF n = 0 THEN {<<>>}
  ELSE {Append(t, c) : t \in TextsOfLen(n - 1), c \in {"a", " "}}

Texts == UNION {TextsOfLen(n) : n \in 0..MaxLen} \cup {ExampleText}

SplitInit == MainInit /\ fnIn \in Texts /\ fnOut = <<>>

Split_Call ==
  /\ fnOut = <<>>
  /\ fnOut' = <<splitIndex(fnIn)>>
  /\ UNCHANGED <<pc, booted, millis, lastDownloadUpdate, lastMinute,
                 lastPressure, lastValidLocation, forecast, httpCode, parsed,
                 doc, tft, cycle, atEntry, history, env, fnIn>>

SplitNext == Split_Call

SpecSplit == SplitInit /\ [][SplitNext]_vars

\* 0-based indices of the spaces of text
SpacesOf(text) == {i \in 0..(Len(text) - 1) : text[i + 1] = " "}

MaxOf(S) == CHOOSE i \in S : \A j \in S : j <= i
MinOf(S) == CHOOSE i \in S : \A j \in S : i <= j

MaxWmo == 99

Times == 0..MaxTime

IconInit ==
  /\ MainInit
  /\ fnIn \in {[id |-> i, today |-> t, now |-> n, sunrise |-> r, sunset |-> s] :
                 i \in 0..MaxCode, t \in BOOLEAN,
                 n \in Times, r \in Times, s \in Times}
  /\ fnIn.sunrise <= fnIn.sunset
  /\ fnOut = <<>>

Icon_Call ==
  /\ fnOut = <<>>
  /\ fnOut' = <<getMeteoconIcon(fnIn.id, fnIn.today, fnIn.now,
                                fnIn.sunrise, fnIn.sunset)>>
  /\ UNCHANGED <<pc, booted, millis, lastDownloadUpdate, lastMinute,
                 lastPressure, lastValidLocation, forecast, httpCode, parsed,
                 doc, tft, cycle, atEntry, history, env, fnIn>>

IconNext == Icon_Call

SpecIcon == IconInit /\ [][IconNext]_vars

NightIcons == {"clear-night", "partly-cloudy-night"}

IconNames ==
  {"clear-day", "clear-night", "partly-cloudy-day", "partly-cloudy-night",
   "fog", "drizzle", "rain", "snow", "thunderstorm", "unknown"}

\* the weather codes 0..99 to which the table gives an icon
MappedCodes ==
  (0..3) \cup {45, 48} \cup (51..55) \cup (61..67) \cup (71..77)
  \cup (80..82) \cup {85, 86} \cup (95..99)

\* the icon the table gives to a weather code 0..99 by day
DayIconOf(id) ==
  IF id = 0 THEN "clear-day"
  ELSE IF id \in 1..3 THEN "partly-cloudy-day"
  ELSE IF id \in {45, 48} THEN "fog"
  ELSE IF id \in 51..55 THEN "drizzle"
  ELSE IF id \in (61..67) \cup (80..82) THEN "rain"
  ELSE IF id \in (71..77) \cup {85, 86} THEN "snow"
  ELSE IF id \in 95..99 THEN "thunderstorm"
  ELSE "unknown"

C9_UnknownOutsideRanges ==
  fnOut # <<>> =>
    /\ fnOut[1] # "" /\ fnOut[1] \in IconNames
    /\ fnIn.id \notin MappedCodes => fnOut[1] = "unknown"

\* C9 (amended): every code 0..99 gets a non-empty icon name of the fixed
\* set; every code 0..99 in no defined range, and every code above 99 other
\* than 1000..1003, gets exactly "unknown"; 1000 gets clear-night and
\* 1001..1003 get partly-cloudy-night, whatever the today flag and the time.
C9_UnknownOutsideRangesAndNightCodes ==
  fnOut # <<>> =>
    /\ fnOut[1] # "" /\ fnOut[1] \in IconNames
    /\ (fnIn.id \notin MappedCodes /\ fnIn.id \notin 1000..1003) =>
          fnOut[1] = "unknown"
    /\ fnIn.id = 1000 => fnOut[1] = "clear-night"
    /\ fnIn.id \in 1001..1003 => fnOut[1] = "partly-cloudy-night"
    /\ (fnIn.id \in MappedCodes /\ fnOut[1] \notin NightIcons) =>
          fnOut[1] = DayIconOf(fnIn.id)

C9_Witness ==
  /\ fnIn.id = 84 /\ fnIn.today /\ fnIn.now > fnIn.sunset
  /\ fnOut = <<"unknown">>

\* ===================================================================
\* wind sector of drawCurrentWeather: claim C10 (specification SpecWind)
\* ===================================================================

WindInit ==
  /\ MainInit
  /\ fnIn \in (0 - MaxBearing)..MaxBearing
  /\ fnOut = <<>>

\* lines 465-468
Wind_Call ==
  /\ fnOut = <<>>
  /\ fnOut' = <<[raw |-> WindRaw(fnIn),
                 windAngle |-> WindClamp(WindRaw(fnIn))]>>
  /\ UNCHANGED <<pc, booted, millis, lastDownloadUpdate, lastMinute,
                 lastPressure, lastValidLocation, forecast, httpCode, parsed,
                 doc, tft, cycle, atEntry, history, env, fnIn>>

WindNext == Wind_Call

SpecWind == WindInit /\ [][WindNext]_vars

\* C10: for an integer bearing b in [0, 360) the sector index is
\* floor((b + 22.5) / 45) mod 8; whenever the computed index is outside 0..7
\* the index used is 0, so the index used is always one of the 8 entries of
\* the direction table.
C10_SectorIndex ==
  fnOut # <<>> =>
    /\ fnIn \in 0..359 =>
         fnOut[1].windAngle = ((fnIn * 10 + 225) \div 450) % 8
    /\ fnOut[1].raw \notin 0..7 => fnOut[1].windAngle = 0
    /\ fnOut[1].windAngle \in 0..7
    /\ fnOut[1].windAngle + 1 \in DOMAIN windDirs

\* a bearing just west of north: the computed index is 8, the one used is 0
C10_Witness ==
  /\ fnIn = 350
  /\ fnOut = <<[raw |-> 8, windAngle |-> 0]>>

\* ===================================================================
\* weekday label of a forecast panel: claim C7 (specification SpecDay)
\* ===================================================================

DayInit ==
  /\ MainInit
  /\ fnIn \in {[dt |-> (MaxTzHours + h) * 3600, tz |-> z] :
                 h \in 0..MaxHour, z \in (0 - MaxTzHours)..MaxTzHours}
  /\ fnOut = <<>>

\* line 513
Day_Call ==
  /\ fnOut = <<>>
  /\ fnOut' = <<DayName(fnIn.dt, fnIn.tz)>>
  /\ UNCHANGED <<pc, booted, millis, lastDownloadUpdate, lastMinute,
                 lastPressure, lastValidLocation, forecast, httpCode, parsed,
                 doc, tft, cycle, atEntry, history, env, fnIn>>

DayNext == Day_Call

SpecDay == DayInit /\ [][DayNext]_vars

\* C7 (as the specification states it): the weekday label is the weekday of
\* the sunrise timestamp converted to local time with the timezone rule.
C7_LocalWeekday ==
  fnOut # <<>> =>
    fnOut[1] = dayShortStr(weekday(toLocal(fnIn.dt, fnIn.tz)))

\* ===================================================================
\* wind sector of a fractional payload bearing: claim C11
\* (specification SpecSeam)
\* ===================================================================

MaxTenths == 3599    \* payload bearings 0.0 .. MaxTenths / 10 degrees

SeamInit ==
  /\ MainInit
  /\ fnIn \in 0..MaxTenths
  /\ fnOut = <<>>

\* line 305 stores the payload bearing, lines 465-467 map it to a sector
Seam_Call ==
  /\ fnOut = <<>>
  /\ LET wind_deg == AsInt(<<fnIn>>)
         windAngle == WindClamp(WindRaw(wind_deg))
     IN  fnOut' = <<[wind_deg |-> wind_deg, dir |-> windDirs[windAngle + 1]]>>
  /\ UNCHANGED <<pc, booted, millis, lastDownloadUpdate, lastMinute,
                 lastPressure, lastValidLocation, forecast, httpCode, parsed,
                 doc, tft, cycle, atEntry, history, env, fnIn>>

SeamNext == Seam_Call

SpecSeam == SeamInit /\ [][SeamNext]_vars

\* C11: the sector seams lie at exactly 22.5 + 45k degrees for a fractional
\* payload bearing too: the sector drawn for a bearing of t tenths of a
\* degree is floor((t/10 + 22.5) / 45) mod 8, so 22.4 gives N, 22.6 gives NE,
\* 337.4 gives NW and 337.6 gives N.
C11_SeamsAtHalfSector ==
  fnOut # <<>> =>
    fnOut[1].dir = windDirs[(((fnIn + 225) \div 450) % 8) + 1]

\* ===================================================================
\* the refresh timer: claims C13, C19 (specification SpecTimer)
\* ===================================================================

TimerInit ==
  /\ Boot
  /\ env = "timer"
  /\ fnIn = <<>>
  /\ fnOut = <<>>

\* the sketch runs loop() for ever and every network call returns, so each
\* step of loop() that is ready is taken; millis() keeps counting, so a tick
\* that is possible again and again (between two iterations) does pass
SpecTimer ==
  /\ TimerInit
  /\ [][Next]_vars
  /\ WF_vars(Loop_Check)
  /\ WF_vars(UD_Location)
  /\ WF_vars(UD_Fetch)
  /\ WF_vars(UD_Draw)
  /\ WF_vars(UD_End)
  /\ WF_vars(Loop_Clock)
  /\ SF_vars(Tick)

\* a refresh that follows a failed one starts only after more than the
\* interval has gone by since that failed attempt
C13_NotBeforeInterval ==
  (pc = "loop" /\ pc' = "ud_location" /\ history.lastFailed) =>
     history.elapsed > Period

\* C13: after any failed refresh the loop keeps running and another attempt
\* is eventually made, once the update interval has elapsed since the failed
\* one; this holds after any number of failures in a row, and a failed
\* attempt is never retried before the interval has elapsed.
C13_RetryAfterFailure ==
  /\ (pc = "ud_end" /\ ~parsed) ~> (pc = "ud_location" /\ history.lastFailed)
  /\ []<>(pc = "loop")
  /\ [][C13_NotBeforeInterval]_vars

\* the end of a failed attempt that follows a failed attempt, nothing having
\* been drawn since boot
C13_Witness ==
  /\ pc = "ud_end"
  /\ ~parsed
  /\ ~atEntry[1].booted
  /\ history.lastFailed
  /\ tft.current = <<>>

\* one pass through line 244 after boot: updateData is entered exactly when
\* more than the interval has truly gone by since the last attempt
C19_DueIffElapsed ==
  (pc = "loop" /\ ~booted /\ pc' # "loop") =>
     (pc' = "ud_location" <=> history.elapsed > Period)

\* C19: the due test, on a millis() that is unsigned and a lastDownloadUpdate
\* that is a signed long of the same width, stays right across the
\* wraparound of millis() and for values in the upper half of its range:
\* after boot a refresh fires if and only if more than the interval has truly
\* elapsed since the last attempt.
C19_DueAcrossWraparound == [][C19_DueIffElapsed]_vars

\* a refresh that fires after millis() has wrapped, the time of the last
\* attempt being stored as a negative long
C19_Witness ==
  /\ pc = "ud_location"
  /\ ~atEntry[1].booted
  /\ lastDownloadUpdate < 0
  /\ millis < lastDownloadUpdate + Wrap
  /\ history.elapsed = Period + 1

\* ===================================================================
\* condition word of drawCurrentWeather: claim C15
\* (specification SpecLegend)
\* ===================================================================

LegendInit ==
  /\ MainInit
  /\ fnIn \in 0..MaxCode
  /\ fnOut = <<>>

\* lines 421-427
Legend_Call ==
  /\ fnOut = <<>>
  /\ fnOut' = <<Legend(fnIn)>>
  /\ UNCHANGED <<pc, booted, millis, lastDownloadUpdate, lastMinute,
                 lastPressure, lastValidLocation, forecast, httpCode, parsed,
                 doc, tft, cycle, atEntry, history, env, fnIn>>

LegendNext == Legend_Call

SpecLegend == LegendInit /\ [][LegendNext]_vars

\* C15: for a current weather code c in 0..99 the condition word is exactly
\* one of Clear, Cloudy, Rain and Storm: Clear iff c = 0, Cloudy iff c is in
\* 1..3, Rain iff c is in 4..67 and Storm iff c is in 68..99; for a code
\* above 99 the word is Clouds.
C15_ConditionWord ==
  fnOut # <<>> =>
    LET c == fnIn
        word == fnOut[1]
    IN  /\ c \in 0..MaxWmo =>
             /\ word \in {"Clear", "Cloudy", "Rain", "Storm"}
             /\ word = "Clear" <=> c = 0
             /\ word = "Cloudy" <=> c \in 1..3
             /\ word = "Rain" <=> c \in 4..67
             /\ word = "Storm" <=> c \in 68..MaxWmo
        /\ c > MaxWmo => word = "Clouds"

\* the last code that reads Rain
C15_Witness ==
  /\ fnIn = 67
  /\ fnOut = <<"Rain">>

====
